---- MODULE Spec2Model ----
(***************************************************************************)
(* CarbonSecureAI (src/main2.py): a Streamlit dashboard.  One user         *)
(* interaction = an optional on_click callback followed by one full        *)
(* top-to-bottom execution of the script.  The session state, the          *)
(* formations table, the file-uploader widget and what tabs 6 and 7        *)
(* rendered in the last execution are the state.                           *)
(*                                                                         *)
(* Numbers: widget values are integers.  Area is held in units of 10^6 m2  *)
(* and a storage capacity in units of 10^-4 Mt, so that                    *)
(*   area*thickness*(porosity/100)*co2_density*(eff/100)/1e6  [Mt]         *)
(* is the integer product of the five widget values.  A probability is     *)
(* held in thousandths, a Security score in hundredths.                    *)
(***************************************************************************)
EXTENDS Integers, Sequences, FiniteSets, TLC

VARIABLES
    pipeline,           \* the classifier load_model() returned (its bias term)
    session,            \* st.session_state: widget key -> value (keys present only)
    formations,         \* st.session_state.formations: [cols, rows]
    uploaded_file,      \* the file held by the tab-5 uploader, or "None"
    selected_formation, \* value of the tab-6 selectbox, or "None" when not rendered
    new_entry,          \* the record built by the last add_current_formation
    view6,              \* what tab 6 rendered: "placeholder", "data", "crash"
    prediction_error,   \* st.error("Prediction failed") was shown in the last run
    metrics,            \* the three st.metric values of tab 6, <<>> when not shown
    view7,              \* what tab 7 rendered: "map", "placeholder", "crash", "none"
    map_points,         \* the points handed to the scatter layer
    touched_t3,         \* history: the tab-3 widgets the user has edited
    edits               \* history: number of widget edits so far (bounded)

vars == <<pipeline, session, formations, uploaded_file, selected_formation,
          new_entry, view6, prediction_error, metrics, view7, map_points,
          touched_t3, edits>>

\* ---------------------------------------------------------------- bounds
MaxEdits == 2
MaxRows == 2

\* ------------------------------------------------------ session / widgets
NoneVal == "None"

\* The keyed widgets of tabs 1-4 in the order the script creates them.
WidgetOrder ==
    << "reservoir_name", "location", "longitude", "latitude",
       "storage_capacity", "area", "thickness", "porosity", "co2_density",
       "eff_factor", "pressure", "temperature", "depth",
       "co2_density_t3", "thickness_t3", "seal_thickness",
       "faulted", "stacked" >>

WidgetKeys == { WidgetOrder[i] : i \in 1..Len(WidgetOrder) }

Tab2Keys == {"storage_capacity", "area", "thickness", "porosity",
             "co2_density", "eff_factor"}

\* st.session_state.get(k, d)
Get(s, k, d) == IF k \in DOMAIN s THEN s[k] ELSE d

\* The value a widget takes when its key is not yet in the session state.
WidgetDefault(s, k) ==
    CASE k \in {"reservoir_name", "location"} -> ""
      [] k \in {"faulted", "stacked"}          -> NoneVal
      [] k = "co2_density_t3"                  -> Get(s, "co2_density", 0)
      [] k = "thickness_t3"                    -> Get(s, "thickness", 0)
      [] OTHER                                 -> 0

\* Running tabs 1-4: every widget registers its key; a key already in the
\* session state keeps its value.
RECURSIVE RenderWidgets(_, _)
RenderWidgets(s, i) ==
    IF i > Len(WidgetOrder) THEN s
    ELSE LET k == WidgetOrder[i]
         IN  RenderWidgets(IF k \in DOMAIN s THEN s
                           ELSE s @@ (k :> WidgetDefault(s, k)), i + 1)

\* The values the user types or picks, per widget.
InputVals(k) ==
    CASE k = "reservoir_name"   -> {"", "A", "B"}
      [] k = "location"         -> {"", "Accra"}
      [] k \in {"faulted", "stacked"} -> {NoneVal, "Yes", "No"}
      [] k = "longitude"        -> {0, 12}
      [] k = "latitude"         -> {0, 34}
      [] k = "storage_capacity" -> {0, 5000000}
      [] k = "area"             -> {0, 1}
      [] k = "thickness"        -> {0, 50}
      [] k = "porosity"         -> {0, 20}
      [] k = "co2_density"      -> {0, 700}
      [] k = "eff_factor"       -> {0, 60}
      [] k = "pressure"         -> {0, 15}
      [] k = "temperature"      -> {0, 80}
      [] k = "depth"            -> {0, 1200}
      [] k = "co2_density_t3"   -> {0, 650}
      [] k = "thickness_t3"     -> {0, 40}
      [] k = "seal_thickness"   -> {0, 25}

\* ------------------------------------------------------------- callbacks
\* Variant of calculate_capacity that leaves out the efficiency factor.
calculate_capacity_no_eff(s) ==
    s["area"] * s["thickness"] * s["porosity"] * s["co2_density"] * 100

\* calculate_capacity: the value stored under "storage_capacity".
calculate_capacity(s) ==
    s["area"] * s["thickness"] * s["porosity"] * s["co2_density"] * s["eff_factor"]

\* Variant of the encoding that tests for "No": an unset control gives 1.
YesNoCode_not_no(v) == IF v = "No" THEN 0 ELSE 1

\* add_current_formation: fault / stacked encoding.
YesNoCode(v) == IF v = "Yes" THEN 1 ELSE 0

\* Variant of the cross-tab lookup that prefers the tab-2 key.
CrossTab_tab2_first(s, k3, k2) == Get(s, k2, Get(s, k3, 0))

\* add_current_formation: the cross-tab fields.
CrossTab(s, k3, k2) == Get(s, k3, Get(s, k2, 0))

\* add_current_formation: new_entry.
snapshotCurrentInputs(s) ==
       ("Name"                    :> Get(s, "reservoir_name", ""))
    @@ ("Depth (m)"               :> Get(s, "depth", 0))
    @@ ("P (MPa)"                 :> Get(s, "pressure", 0))
    @@ ("T (C)"                   :> Get(s, "temperature", 0))
    @@ ("CO2 Density (kg/m3)"     :> CrossTab(s, "co2_density_t3", "co2_density"))
    @@ ("Storage Capacity (Mt)"   :> Get(s, "storage_capacity", 0))
    @@ ("Fault"                   :> YesNoCode(s["faulted"]))
    @@ ("Seal Thickness (m)"      :> Get(s, "seal_thickness", 0))
    @@ ("Reservoir Thickness (m)" :> CrossTab(s, "thickness_t3", "thickness"))
    @@ ("Stacked"                 :> YesNoCode(s["stacked"]))
    @@ ("Longitude"               :> Get(s, "longitude", 0))
    @@ ("Latitude"                :> Get(s, "latitude", 0))

\* ------------------------------------------------------ formations table
\* A table is [cols: the set of column names, rows: a sequence of rows]; a
\* row is a function on the columns in which it has a value (a column of
\* the table missing from a row's domain is NaN in that row).
SchemaCols ==
    {"Name", "Depth (m)", "P (MPa)", "T (C)", "CO2 Density (kg/m3)",
     "Storage Capacity (Mt)", "Fault", "Seal Thickness (m)",
     "Reservoir Thickness (m)", "Stacked", "Longitude", "Latitude"}

\* The table created when "formations" is not in the session state.
EmptyFormations == [cols |-> SchemaCols, rows |-> <<>>]

\* Before the first execution of the script there is no table.
NoFormations == [cols |-> {}, rows |-> <<>>]

\* pd.concat([formations, pd.DataFrame([entry])], ignore_index=True)
concat(f, entry) ==
    [cols |-> f.cols \cup DOMAIN entry, rows |-> Append(f.rows, entry)]

\* DataFrame.empty
IsEmpty(f) == Len(f.rows) = 0 \/ f.cols = {}

\* -------------------------------------------------------- uploaded files
Restrict(r, cs) == [c \in cs |-> r[c]]

CsvRowA1 ==
       ("Name" :> "A") @@ ("Depth (m)" :> 1000) @@ ("P (MPa)" :> 10)
    @@ ("T (C)" :> 60) @@ ("CO2 Density (kg/m3)" :> 600)
    @@ ("Storage Capacity (Mt)" :> 1234567) @@ ("Fault" :> 0)
    @@ ("Seal Thickness (m)" :> 30) @@ ("Reservoir Thickness (m)" :> 20)
    @@ ("Stacked" :> 0) @@ ("Longitude" :> 5) @@ ("Latitude" :> 6)

CsvRowA2 == [CsvRowA1 EXCEPT !["Seal Thickness (m)"] = 45, !["Fault"] = 1]

CsvRowB == [CsvRowA1 EXCEPT !["Name"] = "B"]

\* The tables pd.read_csv can return for the files the user uploads.
CsvFiles == {"empty.csv", "good.csv", "nodepth.csv", "security.csv"}

read_csv(file) ==
    CASE file = "empty.csv" ->
            [cols |-> SchemaCols, rows |-> <<>>]
      [] file = "good.csv" ->
            [cols |-> SchemaCols, rows |-> <<CsvRowA1, CsvRowA2>>]
      [] file = "nodepth.csv" ->
            [cols |-> SchemaCols \ {"Depth (m)"},
             rows |-> <<Restrict(CsvRowB, SchemaCols \ {"Depth (m)"})>>]
      [] file = "security.csv" ->
            [cols |-> (SchemaCols \ {"Depth (m)"}) \cup {"Security"},
             rows |-> <<Restrict(CsvRowB, SchemaCols \ {"Depth (m)"})
                        @@ ("Security" :> 750)>>]

\* ------------------------------------------------------- security scorer
feature_cols ==
    << "Depth (m)", "P (MPa)", "T (C)", "CO2 Density (kg/m3)",
       "Storage Capacity (Mt)", "Fault", "Seal Thickness (m)",
       "Reservoir Thickness (m)", "Stacked" >>

FeatureSet == { feature_cols[i] : i \in 1..Len(feature_cols) }

\* The pickled classifier is opaque: a fixed deterministic function of the
\* nine features with values in [0,1] (here 0..1000 thousandths).  The
\* classifier p is identified by its bias term.
RECURSIVE WeightedSum(_, _)
WeightedSum(row, i) ==
    IF i > Len(feature_cols) THEN 0
    ELSE ((600 + i) * (row[feature_cols[i]] % 1001)
          + WeightedSum(row, i + 1)) % 1001

predict_proba(p, row) == (p + WeightedSum(row, 1)) % 1001

\* numpy .round(2): thousandths to hundredths, ties to even.
Round2(p) ==
    LET q == p \div 10
        r == p % 10
    IN  IF r < 5 THEN q
        ELSE IF r > 5 THEN q + 1
        ELSE IF q % 2 = 0 THEN q ELSE q + 1

\* formations[feature_cols] raises KeyError when a column is missing; the
\* classifier raises on a NaN feature.
PredictionRaises(f) ==
    \/ ~(FeatureSet \subseteq f.cols)
    \/ \E i \in 1..Len(f.rows) : ~(FeatureSet \subseteq DOMAIN f.rows[i])

\* formations["Security"] = preds
AssignSecurity(p, f) ==
    [cols |-> f.cols \cup {"Security"},
     rows |-> [i \in 1..Len(f.rows) |->
                 [c \in DOMAIN f.rows[i] \cup {"Security"} |->
                    IF c = "Security" THEN Round2(predict_proba(p, f.rows[i]))
                    ELSE f.rows[i][c]]]]

\* ----------------------------------------------------------------- tab 6
NaNShown == 0 - 1

\* f"{x:.2f}" of a value held in 1/unit: hundredths, ties to even; "nan"
\* for a missing value.
Fmt2(row, c, unit) ==
    IF c \notin DOMAIN row THEN NaNShown
    ELSE LET x == row[c] * 100
             q == x \div unit
             r == x % unit
         IN  IF 2 * r < unit THEN q
             ELSE IF 2 * r > unit THEN q + 1
             ELSE IF q % 2 = 0 THEN q ELSE q + 1

\* formations["Name"].tolist()
NameOptions(f) == [i \in 1..Len(f.rows) |-> f.rows[i]["Name"]]

\* formations[formations["Name"] == name].iloc[0]
FirstMatch(f, name) ==
    LET idx == { i \in 1..Len(f.rows) : f.rows[i]["Name"] = name }
    IN  f.rows[CHOOSE i \in idx : \A j \in idx : i <= j]

\* The selectbox: the held value when it is still an option, else the
\* first option.
SelectboxValue(options, sel) ==
    IF \E i \in 1..Len(options) : options[i] = sel THEN sel ELSE options[1]

\* The three st.metric calls on the selected row.
ShowMetrics(row) ==
    << Fmt2(row, "Security", 100),
       Fmt2(row, "Storage Capacity (Mt)", 10000),
       Fmt2(row, "Seal Thickness (m)", 1) >>

Tab6Out(f, sel, v, err, m) ==
    [formations |-> f, selected |-> sel, view6 |-> v, err |-> err, metrics |-> m]

\* Tab 6 from the selectbox on: f is the table after the prediction block,
\* raises whether the prediction block raised, name the selectbox value.
Tab6Selected(f, raises, name) ==
    IF name = "" THEN Tab6Out(f, name, "data", raises, <<>>)
    ELSE IF "Security" \notin f.cols
    THEN Tab6Out(f, name, "crash", raises, <<>>)
    ELSE Tab6Out(f, name, "data", raises, ShowMetrics(FirstMatch(f, name)))

Tab6Scored(f, raises, sel) ==
    IF "Name" \notin f.cols THEN Tab6Out(f, NoneVal, "crash", raises, <<>>)
    ELSE Tab6Selected(f, raises, SelectboxValue(NameOptions(f), sel))

Tab6Predict(p, f, raises, sel) ==
    Tab6Scored(IF raises THEN f ELSE AssignSecurity(p, f), raises, sel)

Tab6(p, f, sel) ==
    IF IsEmpty(f) THEN Tab6Out(f, NoneVal, "placeholder", FALSE, <<>>)
    ELSE Tab6Predict(p, f, PredictionRaises(f), sel)

\* ----------------------------------------------------------------- tab 7
\* Variant of the banding with strict comparisons.
security_to_color_strict(sec) ==
    IF sec > 90 THEN <<0, 200, 0>>
    ELSE IF sec > 50 THEN <<255, 165, 0>>
    ELSE <<200, 0, 0>>

security_to_color(sec) ==
    IF sec >= 90 THEN <<0, 200, 0>>
    ELSE IF sec >= 50 THEN <<255, 165, 0>>
    ELSE <<200, 0, 0>>

Tab7(f) ==
    IF ~IsEmpty(f) /\ "Security" \in f.cols
    THEN IF \E i \in 1..Len(f.rows) : "Security" \notin DOMAIN f.rows[i]
         THEN [view7 |-> "crash", points |-> <<>>]
         ELSE [view7 |-> "map",
               points |-> [i \in 1..Len(f.rows) |->
                  [name     |-> f.rows[i]["Name"],
                   security |-> f.rows[i]["Security"],
                   color    |-> security_to_color(f.rows[i]["Security"]),
                   size     |-> f.rows[i]["Security"] * 1000]]]
    ELSE [view7 |-> "placeholder", points |-> <<>>]

\* ------------------------------------------------ one script execution
\* Tab 5: the table is created on the first execution; a file held by the
\* uploader replaces it.
Tab5(f, upl) ==
    IF upl # NoneVal THEN read_csv(upl)
    ELSE IF f = NoFormations THEN EmptyFormations ELSE f

\* Tab 7 is not reached when tab 6 ended in an unhandled exception.
AfterTab6(s, t6) ==
    [session |-> s, t6 |-> t6,
     t7 |-> IF t6.view6 = "crash" THEN [view7 |-> "none", points |-> <<>>]
            ELSE Tab7(t6.formations)]

\* The script from top to bottom on classifier p, session state s, table
\* f, uploader content upl and selectbox state sel.
Script(p, s, f, upl, sel) ==
    AfterTab6(RenderWidgets(s, 1), Tab6(p, Tab5(f, upl), sel))

Rendered(r, upl) ==
    /\ session' = r.session
    /\ formations' = r.t6.formations
    /\ uploaded_file' = upl
    /\ selected_formation' = r.t6.selected
    /\ view6' = r.t6.view6
    /\ prediction_error' = r.t6.err
    /\ metrics' = r.t6.metrics
    /\ view7' = r.t7.view7
    /\ map_points' = r.t7.points
    /\ pipeline' = pipeline

Rerun(s, f, upl, sel) == Rendered(Script(pipeline, s, f, upl, sel), upl)

\* ---------------------------------------------------------------- state
NoEntry == <<>>

\* The bias of the classifier the main specification runs with.
DefaultPipeline == {900}

AnyPipeline == 0..1000

FirstRun(r) ==
    /\ session = r.session
    /\ formations = r.t6.formations
    /\ uploaded_file = NoneVal
    /\ selected_formation = r.t6.selected
    /\ new_entry = NoEntry
    /\ view6 = r.t6.view6
    /\ prediction_error = r.t6.err
    /\ metrics = r.t6.metrics
    /\ view7 = r.t7.view7
    /\ map_points = r.t7.points
    /\ touched_t3 = {}
    /\ edits = 0

\* The state after the first execution of the script.
Init ==
    /\ pipeline \in DefaultPipeline
    /\ FirstRun(Script(pipeline, <<>>, NoFormations, NoneVal, NoneVal))

InitAnyPipeline ==
    /\ pipeline \in AnyPipeline
    /\ FirstRun(Script(pipeline, <<>>, NoFormations, NoneVal, NoneVal))

\* -------------------------------------------------------------- actions
\* The user changes widget k of tabs 1-4 to v.
Edit(k, v) ==
    /\ session[k] # v
    /\ Rerun([session EXCEPT ![k] = v], formations, uploaded_file,
             selected_formation)
    /\ touched_t3' = touched_t3 \cup ({k} \cap {"co2_density_t3", "thickness_t3"})
    /\ UNCHANGED new_entry

EditWidget ==
    \E k \in WidgetKeys : \E v \in InputVals(k) :
        /\ edits < MaxEdits
        /\ Edit(k, v)
        /\ edits' = edits + 1

\* The user changes a widget of tab 2 (no bound on the number of edits).
EditTab2 ==
    \E k \in Tab2Keys : \E v \in InputVals(k) :
        /\ Edit(k, v)
        /\ UNCHANGED edits

\* "Calculate Storage Capacity"
ClickCalculate ==
    /\ Rerun([session EXCEPT !["storage_capacity"] = calculate_capacity(session)],
             formations, uploaded_file, selected_formation)
    /\ UNCHANGED <<new_entry, touched_t3, edits>>

\* "Add Formation"
AddEntry(entry) ==
    /\ new_entry' = entry
    /\ Rerun(session, concat(formations, entry), uploaded_file,
             selected_formation)

ClickAdd ==
    /\ Len(formations.rows) < MaxRows
    /\ AddEntry(snapshotCurrentInputs(session))
    /\ UNCHANGED <<touched_t3, edits>>

\* The user puts a file into the uploader.
Upload ==
    \E file \in CsvFiles :
        /\ uploaded_file # file
        /\ Rerun(session, formations, file, selected_formation)
        /\ UNCHANGED <<new_entry, touched_t3, edits>>

\* The user removes the file from the uploader.
ClearUpload ==
    /\ uploaded_file # NoneVal
    /\ Rerun(session, formations, NoneVal, selected_formation)
    /\ UNCHANGED <<new_entry, touched_t3, edits>>

\* The user picks an option of the tab-6 selectbox.
SelectFormation ==
    /\ selected_formation # NoneVal
    /\ \E i \in 1..Len(formations.rows) :
          /\ formations.rows[i]["Name"] # selected_formation
          /\ Rerun(session, formations, uploaded_file, formations.rows[i]["Name"])
    /\ UNCHANGED <<new_entry, touched_t3, edits>>

\* Any other interaction: the script runs again on the same state.
ViewRerun ==
    /\ Rerun(session, formations, uploaded_file, selected_formation)
    /\ UNCHANGED <<new_entry, touched_t3, edits>>

Next ==
    \/ EditWidget
    \/ ClickCalculate
    \/ ClickAdd
    \/ Upload
    \/ ClearUpload
    \/ SelectFormation
    \/ ViewRerun

Spec == Init /\ [][Next]_vars

\* The storage-capacity tab alone: any number of tab-2 edits.
NextCapacity ==
    \/ EditTab2
    \/ ClickCalculate
    \/ ClickAdd
    \/ Upload
    \/ ClearUpload
    \/ SelectFormation
    \/ ViewRerun

SpecCapacity == Init /\ [][NextCapacity]_vars

\* Any classifier: the records are scored by every bias in turn.
NextBands ==
    \/ ClickAdd
    \/ Upload
    \/ ClearUpload
    \/ ViewRerun

SpecBands == InitAnyPipeline /\ [][NextBands]_vars

\* ================================================================ claims
Rows == formations.rows

NamedLike(name) ==
    { i \in 1..Len(Rows) : "Name" \in DOMAIN Rows[i] /\ Rows[i]["Name"] = name }

\* C1: an 'Add Formation' action leaves the store equal to the previous
\* store with exactly one new record at the end: the length grows by 1 and
\* all earlier records keep their content and order.
C1_AddAppendsOne ==
    [][ClickAdd =>
          /\ Len(formations'.rows) = Len(formations.rows) + 1
          /\ \A i \in 1..Len(formations.rows) :
                formations'.rows[i] = formations.rows[i]]_vars

\* C2: whenever the classifier raised in a Security Assessment activation
\* over a non-empty store, the activation finished without an unhandled
\* error: the selector, the metrics of the selected record and the table
\* were rendered.
C2_PredictionFailureHandled ==
    prediction_error =>
        /\ view6 = "data"
        /\ selected_formation # NoneVal
        /\ (selected_formation # "" => Len(metrics) = 3)

\* C3: every Security value held in the store is the value the scorer
\* computes for that record (rounded probability, within 0..1); none comes
\* from an uploaded table.
C3_SecurityIsScorerOutput ==
    \A i \in 1..Len(Rows) :
        "Security" \in DOMAIN Rows[i] =>
            /\ FeatureSet \subseteq DOMAIN Rows[i]
            /\ Rows[i]["Security"] = Round2(predict_proba(pipeline, Rows[i]))
            /\ Rows[i]["Security"] \in 0..100

\* C4: for every add action the new record's CO2 Density and Reservoir
\* Thickness equal the tab-3 value when it is present in the session, else
\* the tab-2 value, else 0.
C4_CrossTabPreference ==
    [][ClickAdd =>
          /\ new_entry'["CO2 Density (kg/m3)"] =
                (IF "co2_density_t3" \in DOMAIN session
                 THEN session["co2_density_t3"]
                 ELSE IF "co2_density" \in DOMAIN session
                 THEN session["co2_density"] ELSE 0)
          /\ new_entry'["Reservoir Thickness (m)"] =
                (IF "thickness_t3" \in DOMAIN session
                 THEN session["thickness_t3"]
                 ELSE IF "thickness" \in DOMAIN session
                 THEN session["thickness"] ELSE 0)]_vars

\* C4 witness: a record was added whose two cross-tab fields carry the
\* tab-3 values while tab 2 holds different ones.
C4_Witness ==
    /\ new_entry # NoEntry
    /\ new_entry["CO2 Density (kg/m3)"] = 650
    /\ session["co2_density_t3"] = 650
    /\ session["co2_density"] = 700
    /\ Len(Rows) > 0
    /\ Rows[Len(Rows)]["CO2 Density (kg/m3)"] = 650

\* C5: 'Calculate Storage Capacity' sets the held capacity to
\* area*thickness*(porosity/100)*co2_density*(efficiency/100)/1e6,
\* overwriting what was there; a zero factor gives zero; and the capacity
\* changes only in that action or when the user edits the capacity field.
C5_CapacityFormula ==
    [][/\ ClickCalculate =>
             /\ session'["storage_capacity"] =
                   session["area"] * session["thickness"] * session["porosity"]
                   * session["co2_density"] * session["eff_factor"]
             /\ (\E k \in Tab2Keys \ {"storage_capacity"} : session[k] = 0)
                   => session'["storage_capacity"] = 0
       /\ session'["storage_capacity"] # session["storage_capacity"] =>
             \/ ClickCalculate
             \/ \E v \in InputVals("storage_capacity") :
                   Edit("storage_capacity", v)]_vars

\* C5 witness: the capacity of the worked example (area 1e6 m2, thickness
\* 50 m, porosity 20 %, density 700 kg/m3, efficiency 60 %: 4200 Mt) is held.
C5_Witness ==
    /\ session["storage_capacity"] = 42000000
    /\ session["area"] = 1 /\ session["thickness"] = 50
    /\ session["porosity"] = 20 /\ session["co2_density"] = 700
    /\ session["eff_factor"] = 60

\* C6: for every add action the snapshot does not fail; Fault is 1 exactly
\* when the Faulted input is "Yes" and 0 when it is "No" or unset (likewise
\* Stacked); every other field equals the current input value.
C6_SnapshotEncoding ==
    [][/\ WidgetKeys \subseteq DOMAIN session
       /\ ClickAdd =>
             /\ DOMAIN new_entry' = SchemaCols
             /\ new_entry'["Fault"] = (IF session["faulted"] = "Yes" THEN 1 ELSE 0)
             /\ new_entry'["Stacked"] = (IF session["stacked"] = "Yes" THEN 1 ELSE 0)
             /\ new_entry'["Name"] = session["reservoir_name"]
             /\ new_entry'["Depth (m)"] = session["depth"]
             /\ new_entry'["P (MPa)"] = session["pressure"]
             /\ new_entry'["T (C)"] = session["temperature"]
             /\ new_entry'["CO2 Density (kg/m3)"] = session["co2_density_t3"]
             /\ new_entry'["Storage Capacity (Mt)"] = session["storage_capacity"]
             /\ new_entry'["Seal Thickness (m)"] = session["seal_thickness"]
             /\ new_entry'["Reservoir Thickness (m)"] = session["thickness_t3"]
             /\ new_entry'["Longitude"] = session["longitude"]
             /\ new_entry'["Latitude"] = session["latitude"]]_vars

\* C6 witness: a record was added with Faulted "Yes" and Stacked unset.
C6_Witness ==
    /\ new_entry # NoEntry
    /\ session["faulted"] = "Yes" /\ new_entry["Fault"] = 1
    /\ session["stacked"] = NoneVal /\ new_entry["Stacked"] = 0

Green == <<0, 200, 0>>
Orange == <<255, 165, 0>>
Red == <<200, 0, 0>>

\* C7: for every Security score in [0,1] the map colour is green iff the
\* score is >= 0.90, orange iff 0.50 <= score < 0.90 and red iff it is
\* < 0.50: exactly one band, 0.50 and 0.90 in the higher one.
C7_ColourBands ==
    \A i \in 1..Len(map_points) :
        LET s == map_points[i].security
            c == map_points[i].color
        IN  s \in 0..100 =>
              /\ c \in {Green, Orange, Red}
              /\ (c = Green  <=> s >= 90)
              /\ (c = Orange <=> (50 <= s /\ s < 90))
              /\ (c = Red    <=> s < 50)

\* C7 witness: the map shows a record scored exactly 0.90, in green.
C7_Witness ==
    /\ view7 = "map"
    /\ \E i \in 1..Len(map_points) :
          map_points[i].security = 90 /\ map_points[i].color = Green

\* C8: when two or more records carry the selected Name, the Security
\* Assessment view shows the metrics of the one with the lowest index.
C8_FirstMatchShown ==
    (/\ selected_formation # NoneVal
     /\ Cardinality(NamedLike(selected_formation)) >= 2) =>
        LET first == CHOOSE i \in NamedLike(selected_formation) :
                        \A j \in NamedLike(selected_formation) : i <= j
        IN  /\ Len(metrics) = 3
            /\ metrics[1] = Fmt2(Rows[first], "Security", 100)
            /\ metrics[2] = Fmt2(Rows[first], "Storage Capacity (Mt)", 10000)
            /\ metrics[3] = Fmt2(Rows[first], "Seal Thickness (m)", 1)

\* C9: an uploaded empty table leaves an empty store; the Security
\* Assessment view shows its placeholder exactly when the store is empty;
\* the Visualization view shows the map exactly when the store is non-empty
\* and has Security scores, and otherwise its placeholder.
C9_ViewGating ==
    /\ uploaded_file = "empty.csv" => Len(Rows) = 0
    /\ view6 = "placeholder" <=> Len(Rows) = 0
    /\ view7 = "map" <=> (Len(Rows) > 0 /\ "Security" \in formations.cols)
    /\ view7 # "map" => view7 = "placeholder"

\* C10: when the user has entered a CO2 density (thickness) in tab 2 and
\* never edited the field of tab 3, an add action stores that tab-2 value
\* as the record's CO2 Density (Reservoir Thickness).
C10_Tab2ReachesRecord ==
    [][ClickAdd =>
          /\ "co2_density_t3" \notin touched_t3 =>
                new_entry'["CO2 Density (kg/m3)"] = session["co2_density"]
          /\ "thickness_t3" \notin touched_t3 =>
                new_entry'["Reservoir Thickness (m)"] = session["thickness"]]_vars

====
